---- MODULE Spec2Model ----
(***************************************************************************)
(* Model of mattermost-slash-meme (src/main.rs): the webhook filter      *)
(* chain (Authorization header parsing, form decoding, token validation),  *)
(* the meme_reply handler with its synchronous reply, and the            *)
(* reply_with_meme task it spawns, which calls the captioning API and    *)
(* POSTs the final reply to the invocation's response_url.                 *)
(*                                                                         *)
(* Strings whose characters matter (header values, tokens, the command     *)
(* text) are tuples of one-character strings; strings that are only        *)
(* carried around or concatenated (URLs, messages) are TLA+ strings.       *)
(* Option<T> is a tuple: None is <<>>, Some(x) is <<x>>.                   *)
(* Every modelled HTTP request is a POST with a form content type; the     *)
(* tasks of the runtime run in parallel, so steps of different tasks       *)
(* interleave freely.                                                      *)
(***************************************************************************)
EXTENDS Integers, Sequences, FiniteSets, TLC

\* ------------------------------------------------------------------ bounds

NumRequests == 2   \* HTTP requests in flight in the concurrent specification
MaxCredLen == 2    \* longest credential after the scheme (SpecAuth)
MaxTokenLen == 1   \* longest configured token (SpecAuth)
MaxTokens == 2     \* most configured tokens (SpecAuth)
MaxTextLen == 5    \* longest command text (SpecText)
MaxLiveTextLen == 3  \* longest command text (FairSpec)

Requests == 1..NumRequests

\* ------------------------------------------------------- strings, options

None == <<>>
Some(x) == <<x>>

LF == "\n"
CR == "\r"

\* All tuples over alphabet A of length at most n.
RECURSIVE StringsUpTo(_, _)
StringsUpTo(A, n) ==
    IF n = 0 THEN {<<>>}
    ELSE LET shorter == StringsUpTo(A, n - 1)
         IN  shorter \cup {Append(s, c) : s \in {t \in shorter : Len(t) = n - 1}, c \in A}

\* slice.starts_with(prefix)
StartsWith(slice, prefix) ==
    /\ Len(slice) >= Len(prefix)
    /\ SubSeq(slice, 1, Len(prefix)) = prefix

\* ------------------------------------------------------------ error types

\* enum Error
InvalidToken == "InvalidToken"
InvalidAuthorizationHeader == "InvalidAuthorizationHeader"
InvalidAuthorizationHeaderValue == "InvalidAuthorizationHeaderValue"

Ok(v) == [tag |-> "Ok", val |-> v]
Err(e) == [tag |-> "Err", val |-> e]

\* ------------------------------------------------- problem::pack / unpack

UNAUTHORIZED == 401
INTERNAL_SERVER_ERROR == 500

\* problem::pack on a crate::Error: only InvalidToken gets its own problem,
\* every other variant falls through to the 500 problem.
pack(err) ==
    IF err = InvalidToken
    THEN [title |-> "Invalid token.", status |-> Some(UNAUTHORIZED),
          detail |-> Some("The passed token was invalid.")]
    ELSE [title |-> "Internal Server Error", status |-> Some(INTERNAL_SERVER_ERROR),
          detail |-> None]

\* A warp Rejection: one of warp's own causes, or a custom Problem.
WarpRejection(cause) == [kind |-> cause, problem |-> None]
\* problem::build
build(err) == [kind |-> "Problem", problem |-> Some(pack(err))]

\* problem::unpack as the recover handler of warp::serve: a Problem becomes
\* a problem+json reply with the problem's status; any other rejection is
\* handed back to warp, whose default reply for a missing header, an
\* invalid header or a body that does not deserialize is 400 Bad Request.
unpack(rejection) ==
    IF rejection.kind = "Problem"
    THEN LET problem == rejection.problem[1]
         IN  [status |-> IF problem.status = None THEN INTERNAL_SERVER_ERROR
                         ELSE problem.status[1],
              content_type |-> "application/problem+json",
              kind |-> "problem",
              body |-> Some(problem)]
    ELSE [status |-> 400,
          content_type |-> "text/plain",
          kind |-> "rejection",
          body |-> None]

\* --------------------------------------------------- token_authorization

TOKEN_AUTHORIZATION_SCHEME == <<"T", "o", "k", "e", "n">>

\* The Authorization header of a request: absent, present with bytes that
\* are no visible ASCII text, or present with text value.
NoHeader == [kind |-> "absent", value |-> <<>>]
OpaqueHeader == [kind |-> "opaque", value |-> <<>>]
TextHeader(s) == [kind |-> "text", value |-> s]

\* Mutant: the byte after the scheme is not compared with a space.
ParseAuthorization_NoSeparatorCheck(slice) ==
    IF /\ StartsWith(slice, TOKEN_AUTHORIZATION_SCHEME)
       /\ Len(slice) > Len(TOKEN_AUTHORIZATION_SCHEME)
    THEN Ok(SubSeq(slice, Len(TOKEN_AUTHORIZATION_SCHEME) + 2, Len(slice)))
    ELSE Err(InvalidAuthorizationHeaderValue)

\* The closure of token_authorization: scheme, then a space, then the
\* credential.
ParseAuthorization(slice) ==
    IF /\ StartsWith(slice, TOKEN_AUTHORIZATION_SCHEME)
       /\ Len(slice) > Len(TOKEN_AUTHORIZATION_SCHEME)
       /\ slice[Len(TOKEN_AUTHORIZATION_SCHEME) + 1] = " "
    THEN Ok(SubSeq(slice, Len(TOKEN_AUTHORIZATION_SCHEME) + 2, Len(slice)))
    ELSE Err(InvalidAuthorizationHeaderValue)

\* token_authorization(): warp::header rejects an absent or non-text
\* header itself; the closure's error is turned into a Problem rejection.
token_authorization(header) ==
    IF header.kind = "absent" THEN Err(WarpRejection("MissingHeader"))
    ELSE IF header.kind = "opaque" THEN Err(WarpRejection("InvalidHeader"))
    ELSE LET result == ParseAuthorization(header.value)
         IN  IF result.tag = "Ok" THEN result ELSE Err(build(result.val))

\* --------------------------------------------------------------- webhook

\* Mutant: a configured token that is a prefix of the request's token
\* is taken for a match.
RECURSIVE token_validator_Prefix(_, _)
token_validator_Prefix(configured, request_token) ==
    IF configured = <<>> THEN FALSE
    ELSE \/ StartsWith(request_token, Head(configured))
         \/ token_validator_Prefix(Tail(configured), request_token)

\* tokens.iter().any(|configured_token| configured_token == request_token)
RECURSIVE token_validator(_, _)
token_validator(configured, request_token) ==
    IF configured = <<>> THEN FALSE
    ELSE \/ Head(configured) = request_token
         \/ token_validator(Tail(configured), request_token)

\* A request body: a form that deserializes into a Request (of whose
\* fields the program reads command, response_url and text), or one that
\* does not.
BadForm == [decodes |-> FALSE, command |-> "", response_url |-> "", text |-> <<>>]
Form(command, response_url, text) ==
    [decodes |-> TRUE, command |-> command, response_url |-> response_url, text |-> text]

\* warp::body::form()
body_form(body) ==
    IF body.decodes THEN Ok(body) ELSE Err(WarpRejection("BodyDeserializeError"))

\* Mutant: the validator's verdict is ignored and every decoded request
\* is passed on.
webhook_NoTokenCheck(configured, request) ==
    LET authorization == token_authorization(request.authorization)
        form == body_form(request.body)
    IN  IF authorization.tag = "Err" THEN authorization
        ELSE IF form.tag = "Err" THEN form
        ELSE Ok(form.val)

\* webhook(token_validator): post().and(token_authorization())
\* .and(body::form()).map(validate).and_then(problem::build): the filters
\* run in this order and the first rejection wins.
webhook(configured, request) ==
    LET authorization == token_authorization(request.authorization)
        form == body_form(request.body)
    IN  IF authorization.tag = "Err" THEN authorization
        ELSE IF form.tag = "Err" THEN form
        ELSE IF token_validator(configured, authorization.val) THEN Ok(form.val)
        ELSE Err(build(InvalidToken))

\* ------------------------------------------------------------ meme_reply

\* str::lines(): the text is cut after every "\n"; a piece loses its final
\* "\n" and then, if it had one, a final "\r". An empty text has no lines
\* and a final line terminator opens no further line.
FirstLF(s) ==
    IF \E i \in 1..Len(s) : s[i] = LF
    THEN CHOOSE i \in 1..Len(s) : s[i] = LF /\ \A j \in 1..(i - 1) : s[j] # LF
    ELSE 0

RECURSIVE SplitInclusive(_)
SplitInclusive(s) ==
    IF s = <<>> THEN <<>>
    ELSE LET i == FirstLF(s)
         IN  IF i = 0 THEN <<s>>
             ELSE <<SubSeq(s, 1, i)>> \o SplitInclusive(SubSeq(s, i + 1, Len(s)))

StripLine(piece) ==
    IF piece # <<>> /\ piece[Len(piece)] = LF
    THEN LET line == SubSeq(piece, 1, Len(piece) - 1)
         IN  IF line # <<>> /\ line[Len(line)] = CR
             THEN SubSeq(line, 1, Len(line) - 1)
             ELSE line
    ELSE piece

\* Mutant: the text is split at every "\n" (split, not lines), so that a
\* final terminator opens one more, empty line.
Lines_SplitOnLF(s) ==
    LET pieces == SplitInclusive(s)
        lines == [i \in 1..Len(pieces) |-> StripLine(pieces[i])]
    IN  IF s = <<>> \/ s[Len(s)] = LF THEN Append(lines, <<>>) ELSE lines

Lines(s) ==
    LET pieces == SplitInclusive(s)
    IN  [i \in 1..Len(pieces) |-> StripLine(pieces[i])]

ICON_URL == "https://imgflip.com/imgflip_white_96.png"

\* struct Response
Response(text, response_type, goto_location) ==
    [text |-> text, response_type |-> response_type, username |-> None,
     channel_id |-> None, icon_url |-> Some(ICON_URL),
     goto_location |-> goto_location, skip_slack_parsing |-> Some(TRUE)]

\* usage(slash_command); the key glyphs and the code quotes of the format
\* string are written out in plain ASCII.
usage(slash_command) ==
    Response(Some("Usage: '" \o slash_command
                  \o " <id>[shift+enter]<text>[shift+enter]...'\nExample:\n'''"
                  \o slash_command
                  \o " 181913649\nmaking memes yourself\nusing a bot to make memes'''"),
             None, None)

\* Mutant: the acknowledgement is posted to the channel.
WorkingOnIt_InChannel == Response(Some("working on it"), Some("in_channel"), None)

\* The response of meme_reply.
WorkingOnIt == Response(Some("working on it"), None, None)

\* warp::reply::json(&response): status 200.
reply_json(response) ==
    [status |-> 200, content_type |-> "application/json", kind |-> "reply",
     body |-> Some(response)]

\* What meme_reply makes of request.text: None for the usage reply, or the
\* MemeRequest.
MemeRequest(meme, boxes) == [meme |-> meme, boxes |-> boxes]

\* Mutant: the check that boxes is not empty is left out.
ParseMemeRequest_NoBoxesCheck(text) ==
    LET text_lines == Lines(text)
    IN  IF text_lines = <<>> THEN None
        ELSE Some(MemeRequest(Head(text_lines), Tail(text_lines)))

ParseMemeRequest(text) ==
    LET text_lines == Lines(text)
    IN  IF text_lines = <<>> THEN None
        ELSE LET meme == Head(text_lines)
                 boxes == Tail(text_lines)
             IN  IF boxes = <<>> THEN None ELSE Some(MemeRequest(meme, boxes))

\* -------------------------------------------------------- reply_with_meme

\* CaptionBoxesRequestBuilder::new(meme), one caption_box per box, build().
\* Mutant: every box is put in front of the boxes built so far.
RECURSIVE caption_boxes_Reversed(_, _)
caption_boxes_Reversed(built, boxes) ==
    IF boxes = <<>> THEN built
    ELSE caption_boxes_Reversed(<<[text |-> Head(boxes)]>> \o built, Tail(boxes))

RECURSIVE caption_boxes(_, _)
caption_boxes(built, boxes) ==
    IF boxes = <<>> THEN built
    ELSE caption_boxes(Append(built, [text |-> Head(boxes)]), Tail(boxes))

BuildCaption(meme_request) ==
    [template_id |-> meme_request.meme, boxes |-> caption_boxes(<<>>, meme_request.boxes)]

\* The result of imgflip.caption_image(..).await.
CaptionOk(url, page_url) == [tag |-> "Ok", url |-> url, page_url |-> page_url, message |-> ""]
ApiError(message) == [tag |-> "ApiError", url |-> "", page_url |-> "", message |-> message]
OtherError == [tag |-> "Other", url |-> "", page_url |-> "", message |-> ""]

\* Mutant: an API error gets the generic text, its message is dropped.
UserResponse_MessageDropped(meme_response) ==
    IF meme_response.tag = "Ok"
    THEN Response(Some(" hej " \o meme_response.url), Some("in_channel"),
                  Some(meme_response.page_url))
    ELSE Response(Some("Uhoh, something went wrong"), None, None)

\* The match on meme_response.
UserResponse(meme_response) ==
    IF meme_response.tag = "Ok"
    THEN Response(Some(" hej " \o meme_response.url), Some("in_channel"),
                  Some(meme_response.page_url))
    ELSE IF meme_response.tag = "ApiError"
    THEN Response(Some("Uhoh, something went wrong: " \o meme_response.message), None, None)
    ELSE Response(Some("Uhoh, something went wrong"), None, None)

\* ---------------------------------------------------------------- state

VARIABLES
    tokens,     \* args.slash_command_token, the configured tokens (a Vec)
    req,        \* req[r]: the HTTP request r as received
    pc,         \* pc[r]: where the task handling request r stands
    extracted,  \* extracted[r]: what webhook handed to meme_reply
    http,       \* http[r]: the responses written to r's HTTP exchange
    spawns,     \* spawns[r]: how many tasks r's handler has spawned
    worker,     \* worker[r]: the reply_with_meme task spawned for r
    captions,   \* captions[r]: the caption_image calls of r's task
    posts       \* posts[r]: the POSTs r's task has issued

vars == <<tokens, req, pc, extracted, http, spawns, worker, captions, posts>>

NoRequest == [authorization |-> NoHeader, body |-> BadForm]

NoWorker ==
    [pc |-> "none", meme_request |-> MemeRequest(<<>>, <<>>), response_url |-> "",
     meme_response |-> None, user_response |-> None, send_result |-> None]

\* tokio::spawn(reply_with_meme(imgflip, meme_request, response_url))
SpawnedWorker(meme_request, response_url) ==
    [pc |-> "spawned", meme_request |-> meme_request, response_url |-> response_url,
     meme_response |-> None, user_response |-> None, send_result |-> None]

\* -------------------------------------------------------------- inputs

Token(c) == TextHeader(TOKEN_AUTHORIZATION_SCHEME \o <<" ">> \o c)
Bearer == <<"B", "e", "a", "r", "e", "r">>

Commands == {"/meme"}
Urls == {"http://mm/hooks/1", "http://mm/hooks/2"}

\* What the captioning API may answer, and how a POST may end: a response
\* (2xx or not) is Ok for send(), a network error is Err.
CaptionResults == {CaptionOk("http://i/1.jpg", "http://p/1"), ApiError("rate limited"), OtherError}
SendResults == {"2xx", "non2xx", "error"}

\* The requests of the concurrent specification.
Inputs ==
    {[authorization |-> h, body |-> b] :
        h \in {NoHeader, TextHeader(Bearer \o <<" ", "a">>), Token(<<"a">>), Token(<<"b">>)},
        b \in {BadForm, Form("/meme", "http://mm/hooks/1", <<"1">>)}
              \cup {Form("/meme", u, <<"1", LF, "x">>) : u \in Urls}}

\* SpecAuth: one request, every header over a small alphabet.
TokenAlphabet == {"a", "A"}
CredAlphabet == TokenAlphabet \cup {" "}
Schemes == {TOKEN_AUTHORIZATION_SCHEME, <<"T", "o", "k", "e">>, <<"t", "o", "k", "e", "n">>, Bearer}

AuthHeaders ==
    {NoHeader, OpaqueHeader}
    \cup {TextHeader(s \o sep \o c) :
            s \in Schemes, sep \in {<<>>, <<" ">>}, c \in StringsUpTo(CredAlphabet, MaxCredLen)}

AuthInputs ==
    {[authorization |-> h, body |-> b] :
        h \in AuthHeaders,
        b \in {BadForm, Form("/meme", "http://mm/hooks/1", <<"1">>),
               Form("/meme", "http://mm/hooks/1", <<"1", LF, "x">>)}}

TokenConfigs ==
    LET T == StringsUpTo(TokenAlphabet, MaxTokenLen)
    IN  UNION {[1..n -> T] : n \in 1..MaxTokens}

\* SpecText: one authorized request, every command text over a small
\* alphabet.
TextAlphabet == {"1", "x", LF}

TextInputs ==
    {[authorization |-> Token(<<"a">>), body |-> Form(c, u, t)] :
        c \in Commands, u \in {"http://mm/hooks/1"}, t \in StringsUpTo(TextAlphabet, MaxTextLen)}

\* FairSpec: one request, authorized or not, every short command text.
LiveInputs ==
    {[authorization |-> h, body |-> b] :
        h \in {Token(<<"a">>), Token(<<"b">>)},
        b \in {BadForm} \cup {Form("/meme", "http://mm/hooks/1", t) :
                                t \in StringsUpTo(TextAlphabet, MaxLiveTextLen)}}

\* ----------------------------------------------------------------- Init

InitWith(configs) ==
    /\ tokens \in configs
    /\ req = [r \in Requests |-> NoRequest]
    /\ pc = [r \in Requests |-> "idle"]
    /\ extracted = [r \in Requests |-> None]
    /\ http = [r \in Requests |-> <<>>]
    /\ spawns = [r \in Requests |-> 0]
    /\ worker = [r \in Requests |-> NoWorker]
    /\ captions = [r \in Requests |-> <<>>]
    /\ posts = [r \in Requests |-> <<>>]

Init == InitWith({<<<<"c">>, <<"a">>>>})
InitAuth == InitWith(TokenConfigs)
InitText == InitWith({<<<<"a">>>>})

\* -------------------------------------------------------------- actions

\* The server accepts request r (one task per request).
Receive(r, inputs) ==
    /\ pc[r] = "idle"
    /\ \E request \in inputs : req' = [req EXCEPT ![r] = request]
    /\ pc' = [pc EXCEPT ![r] = "webhook"]
    /\ UNCHANGED <<tokens, extracted, http, spawns, worker, captions, posts>>

\* Mutant: a token is used up by the request it authorizes.
Webhook_ConsumesToken(r) ==
    /\ pc[r] = "webhook"
    /\ LET result == webhook(tokens, req[r])
       IN  IF result.tag = "Ok"
           THEN /\ extracted' = [extracted EXCEPT ![r] = Some(result.val)]
                /\ pc' = [pc EXCEPT ![r] = "meme_reply"]
                /\ http' = http
                /\ tokens' = SelectSeq(tokens,
                                LAMBDA t : t # ParseAuthorization(req[r].authorization.value).val)
           ELSE /\ http' = [http EXCEPT ![r] = Append(@, unpack(result.val))]
                /\ pc' = [pc EXCEPT ![r] = "done"]
                /\ extracted' = extracted
                /\ tokens' = tokens
    /\ UNCHANGED <<req, spawns, worker, captions, posts>>

\* hook = with_imgflip.and(webhook(..)).and_then(meme_reply), under
\* recover(problem::unpack): a rejection is answered at once, otherwise the
\* decoded request goes to meme_reply.
Webhook(r) ==
    /\ pc[r] = "webhook"
    /\ LET result == webhook(tokens, req[r])
       IN  IF result.tag = "Ok"
           THEN /\ extracted' = [extracted EXCEPT ![r] = Some(result.val)]
                /\ pc' = [pc EXCEPT ![r] = "meme_reply"]
                /\ http' = http
           ELSE /\ http' = [http EXCEPT ![r] = Append(@, unpack(result.val))]
                /\ pc' = [pc EXCEPT ![r] = "done"]
                /\ extracted' = extracted
    /\ UNCHANGED <<tokens, req, spawns, worker, captions, posts>>

\* meme_reply, both early returns: no first line, or no boxes.
MemeReplyUsage(r) ==
    /\ pc[r] = "meme_reply"
    /\ LET request == extracted[r][1]
       IN  /\ ParseMemeRequest(request.text) = None
           /\ http' = [http EXCEPT ![r] = Append(@, reply_json(usage(request.command)))]
    /\ pc' = [pc EXCEPT ![r] = "done"]
    /\ UNCHANGED <<tokens, req, extracted, spawns, worker, captions, posts>>

\* meme_reply up to and including tokio::spawn.
MemeReplySpawn(r) ==
    /\ pc[r] = "meme_reply"
    /\ LET request == extracted[r][1]
           parsed == ParseMemeRequest(request.text)
       IN  /\ parsed # None
           /\ worker' = [worker EXCEPT ![r] = SpawnedWorker(parsed[1], request.response_url)]
    /\ spawns' = [spawns EXCEPT ![r] = @ + 1]
    /\ pc' = [pc EXCEPT ![r] = "spawned"]
    /\ UNCHANGED <<tokens, req, extracted, http, captions, posts>>

\* Mutant: the handler awaits its task before it returns.
MemeReplyReturn_AwaitsWorker(r) ==
    /\ pc[r] = "spawned"
    /\ worker[r].pc \in {"finished", "panicked"}
    /\ http' = [http EXCEPT ![r] = Append(@, reply_json(WorkingOnIt))]
    /\ pc' = [pc EXCEPT ![r] = "done"]
    /\ UNCHANGED <<tokens, req, extracted, spawns, worker, captions, posts>>

\* meme_reply's final Ok(warp::reply::json(&response)), written to the client.
MemeReplyReturn(r) ==
    /\ pc[r] = "spawned"
    /\ http' = [http EXCEPT ![r] = Append(@, reply_json(WorkingOnIt))]
    /\ pc' = [pc EXCEPT ![r] = "done"]
    /\ UNCHANGED <<tokens, req, extracted, spawns, worker, captions, posts>>

\* reply_with_meme from its start to the caption_image call.
WorkerCaption(r) ==
    /\ worker[r].pc = "spawned"
    /\ captions' = [captions EXCEPT ![r] = Append(@, BuildCaption(worker[r].meme_request))]
    /\ worker' = [worker EXCEPT ![r].pc = "caption_image"]
    /\ UNCHANGED <<tokens, req, pc, extracted, http, spawns, posts>>

\* Mutant: the POST goes to one fixed callback URL.
CallbackPost_FixedUrl(w, user_response) ==
    [url |-> "http://mm/hooks/1", json |-> user_response]

\* The POST reply_with_meme issues for user_response.
CallbackPost(w, user_response) == [url |-> w.response_url, json |-> user_response]

\* Mutant: a captioning error ends the task without a POST.
WorkerPost_ErrorsNotDelivered(r) ==
    /\ worker[r].pc = "caption_image"
    /\ \E meme_response \in CaptionResults :
        LET user_response == UserResponse(meme_response)
        IN  IF meme_response.tag = "Ok"
            THEN /\ worker' = [worker EXCEPT ![r].pc = "send",
                                             ![r].meme_response = Some(meme_response),
                                             ![r].user_response = Some(user_response)]
                 /\ posts' = [posts EXCEPT ![r] = Append(@, CallbackPost(worker[r], user_response))]
            ELSE /\ worker' = [worker EXCEPT ![r].pc = "finished",
                                             ![r].meme_response = Some(meme_response)]
                 /\ posts' = posts
    /\ UNCHANGED <<tokens, req, pc, extracted, http, spawns, captions>>

\* caption_image returns; the task builds user_response and issues the POST.
WorkerPost(r) ==
    /\ worker[r].pc = "caption_image"
    /\ \E meme_response \in CaptionResults :
        LET user_response == UserResponse(meme_response)
        IN  /\ worker' = [worker EXCEPT ![r].pc = "send",
                                        ![r].meme_response = Some(meme_response),
                                        ![r].user_response = Some(user_response)]
            /\ posts' = [posts EXCEPT ![r] = Append(@, CallbackPost(worker[r], user_response))]
    /\ UNCHANGED <<tokens, req, pc, extracted, http, spawns, captions>>

\* Mutant: after a failed send the task issues the POST once more.
WorkerEnd_Retry(r) ==
    /\ worker[r].pc = "send"
    /\ \E result \in SendResults :
        IF result = "2xx" \/ Len(posts[r]) > 1
        THEN /\ worker' = [worker EXCEPT ![r].pc = IF result = "error" THEN "panicked" ELSE "finished",
                                          ![r].send_result = Some(result)]
             /\ posts' = posts
        ELSE /\ worker' = [worker EXCEPT ![r].send_result = Some(result)]
             /\ posts' = [posts EXCEPT ![r] = Append(@, posts[r][1])]
    /\ UNCHANGED <<tokens, req, pc, extracted, http, spawns, captions>>

\* send().await returns and is unwrapped: an Err panics the task, an Ok
\* (whatever its status) is dropped; either way the task is over.
WorkerEnd(r) ==
    /\ worker[r].pc = "send"
    /\ \E result \in SendResults :
        worker' = [worker EXCEPT ![r].pc = IF result = "error" THEN "panicked" ELSE "finished",
                                 ![r].send_result = Some(result)]
    /\ UNCHANGED <<tokens, req, pc, extracted, http, spawns, captions, posts>>

Step(r) ==
    \/ Webhook(r)
    \/ MemeReplyUsage(r)
    \/ MemeReplySpawn(r)
    \/ MemeReplyReturn(r)
    \/ WorkerCaption(r)
    \/ WorkerPost(r)
    \/ WorkerEnd(r)

Next == \E r \in Requests : Receive(r, Inputs) \/ Step(r)
NextAuth == Receive(1, AuthInputs) \/ Step(1)
NextText == Receive(1, TextInputs) \/ Step(1)
NextLive == Receive(1, LiveInputs) \/ Step(1)

Spec == Init /\ [][Next]_vars
SpecAuth == InitAuth /\ [][NextAuth]_vars
SpecText == InitText /\ [][NextText]_vars

\* The runtime keeps polling a request's task, whose steps wait for
\* nothing outside the process. Nothing is assumed of the tasks spawned by
\* meme_reply: the captioning API and the callback endpoint may never
\* answer.
RequestFairness(r) ==
    /\ WF_vars(Webhook(r))
    /\ WF_vars(MemeReplyUsage(r))
    /\ WF_vars(MemeReplySpawn(r))
    /\ WF_vars(MemeReplyReturn(r))

FairSpec == Init /\ [][NextLive]_vars /\ RequestFairness(1)

\* The POST of a task comes to an end: the callback endpoint answers or
\* the connection fails, and the runtime polls the task again. Nothing is
\* assumed of the captioning API.
SendFairness(r) == WF_vars(WorkerEnd(r))

FairWorkerSpec == Init /\ [][NextLive]_vars /\ RequestFairness(1) /\ SendFairness(1)

\* ------------------------------------------- vocabulary of the properties

Range(s) == {s[i] : i \in DOMAIN s}

\* An Authorization header of the form "Token <credential>", and its credential.
WellFormedHeader(h) ==
    h.kind = "text" /\ StartsWith(h.value, <<"T", "o", "k", "e", "n", " ">>)
CredentialOf(h) == SubSeq(h.value, 7, Len(h.value))

\* Request r was authorized and decoded: webhook handed it to meme_reply.
Accepted(r) == extracted[r] # None

\* The number of lines of a text: one per line terminator, and one more
\* for a non-empty rest after the last terminator.
NumLines(t) ==
    Cardinality({i \in 1..Len(t) : t[i] = LF})
    + (IF t # <<>> /\ t[Len(t)] # LF THEN 1 ELSE 0)

\* L is the sequence of lines of t: no line holds a terminator, and the
\* lines, each followed by a terminator, spell t (with its final
\* terminator supplied when t lacks it).
RECURSIVE Terminated(_)
Terminated(L) ==
    IF L = <<>> THEN <<>> ELSE Head(L) \o <<LF>> \o Terminated(Tail(L))

IsLinesOf(L, t) ==
    /\ \A i \in 1..Len(L) : \A j \in 1..Len(L[i]) : L[i][j] # LF
    /\ Terminated(L) = (IF t = <<>> \/ t[Len(t)] = LF THEN t ELSE t \o <<LF>>)

Responded(r) == http[r] # <<>>
Acknowledgement == reply_json(WorkingOnIt)

\* -------------------------------------------------------------------- C1

\* C1 (as claimed): whenever the task spawned for an invocation has issued
\* its callback POST, the "working on it" acknowledgement of that
\* invocation has already been returned on the HTTP exchange.
C1_PostOnlyAfterAck ==
    \A r \in Requests : posts[r] # <<>> => Responded(r)

\* -------------------------------------------------------------------- C2

\* C2: an authorized, decoded invocation whose text has zero lines or one
\* line never spawns a task, never reaches the captioning API or a
\* callback URL, and the one response it gets is the usage reply.
C2_UsageNoWorker ==
    \A r \in Requests :
        (Accepted(r) /\ NumLines(req[r].body.text) <= 1) =>
            /\ spawns[r] = 0
            /\ worker[r] = NoWorker
            /\ captions[r] = <<>>
            /\ posts[r] = <<>>
            /\ pc[r] \in {"meme_reply", "done"}
            /\ IF pc[r] = "done"
               THEN http[r] = <<reply_json(usage(req[r].body.command))>>
               ELSE http[r] = <<>>

C2_Witness ==
    /\ \E r \in Requests :
        pc[r] = "done" /\ Accepted(r) /\ req[r].body.text = <<"1", LF>> /\ Responded(r)

\* -------------------------------------------------------------------- C3

\* C3: for an authorized, decoded invocation whose text has two or more
\* lines, once meme_reply has got past its checks exactly one task has been
\* spawned, its MemeRequest is the first line and then the remaining lines
\* in order, and the caption request it sends has that template id and
\* those box texts, same count and order.
C3_CaptionRequestIsLines ==
    \A r \in Requests :
        (Accepted(r) /\ NumLines(req[r].body.text) >= 2 /\ pc[r] # "meme_reply") =>
            /\ spawns[r] = 1
            /\ worker[r].pc # "none"
            /\ LET m == worker[r].meme_request
               IN  /\ IsLinesOf(<<m.meme>> \o m.boxes, req[r].body.text)
                   /\ Len(m.boxes) = NumLines(req[r].body.text) - 1
            /\ worker[r].pc # "spawned" =>
                /\ Len(captions[r]) = 1
                /\ LET c == captions[r][1]
                   IN  IsLinesOf(<<c.template_id>> \o [i \in 1..Len(c.boxes) |-> c.boxes[i].text],
                                 req[r].body.text)

C3_Witness ==
    \E r \in Requests :
        /\ req[r].body.text = <<"1", LF, "x", LF, "1">>
        /\ captions[r] = <<[template_id |-> <<"1">>,
                            boxes |-> <<[text |-> <<"x">>], [text |-> <<"1">>]>>]>>

\* -------------------------------------------------------------------- C4

\* C4 (as claimed): a request whose Authorization header is absent, is no
\* text, or does not carry the "Token " scheme is answered with status 400.
C4_MalformedHeaderIs400 ==
    \A r \in Requests :
        (pc[r] = "done" /\ ~WellFormedHeader(req[r].authorization)) =>
            /\ Len(http[r]) = 1
            /\ http[r][1].status = 400

\* -------------------------------------------------------------------- C5

\* C5 (as claimed): a request whose header holds a well-formed credential
\* that is not a configured token is answered with status 401, whatever
\* its body.
C5_InvalidTokenIs401 ==
    \A r \in Requests :
        (/\ pc[r] = "done"
         /\ WellFormedHeader(req[r].authorization)
         /\ CredentialOf(req[r].authorization) \notin Range(tokens)) =>
            /\ Len(http[r]) = 1
            /\ http[r][1].status = UNAUTHORIZED

\* -------------------------------------------------------------------- C6

\* A request that fails header parsing, token authorization or decoding.
FailsWebhook(request) ==
    \/ ~WellFormedHeader(request.authorization)
    \/ CredentialOf(request.authorization) \notin Range(tokens)
    \/ ~request.body.decodes

\* C6: a request that fails header parsing, token authorization or body
\* decoding never enters meme_reply, spawns no task and causes no call of
\* the captioning API or of a callback URL; the one response it gets is an
\* error response, not a reply payload.
C6_RejectedDoesNoWork ==
    \A r \in Requests :
        (pc[r] # "idle" /\ FailsWebhook(req[r])) =>
            /\ pc[r] \in {"webhook", "done"}
            /\ extracted[r] = None
            /\ spawns[r] = 0
            /\ worker[r] = NoWorker
            /\ captions[r] = <<>>
            /\ posts[r] = <<>>
            /\ IF pc[r] = "done"
               THEN /\ Len(http[r]) = 1
                    /\ http[r][1].kind # "reply"
                    /\ http[r][1].status >= 400
               ELSE http[r] = <<>>

C6_Witness ==
    \E r \in Requests :
        /\ pc[r] = "done"
        /\ WellFormedHeader(req[r].authorization)
        /\ CredentialOf(req[r].authorization) \notin Range(tokens)
        /\ req[r].body.decodes
        /\ NumLines(req[r].body.text) >= 2
        /\ Responded(r)

\* -------------------------------------------------------------------- C7

\* C7: every authorized request whose body decodes is eventually answered
\* with status 200, by the usage reply or the acknowledgement, under
\* fairness of the request's own task alone: the answer does not wait for
\* the captioning API or the callback POST to return.
C7_AckWithoutWorker ==
    \A r \in Requests :
        Accepted(r) ~>
            (/\ Len(http[r]) = 1
             /\ http[r][1].status = 200
             /\ http[r][1].body \in {Some(WorkingOnIt), Some(usage(req[r].body.command))})

\* The acknowledgement is out while the captioning call is still pending.
C7_Witness ==
    \E r \in Requests :
        /\ http[r] = <<Acknowledgement>>
        /\ worker[r].pc = "caption_image"

\* -------------------------------------------------------------------- C8

\* The POST of r's task has failed: a network error or a non-2xx answer.
PostFailed(r) == worker[r].send_result \in {Some("error"), Some("non2xx")}

\* C8: no task ever issues a second POST; once the POST of r's task has
\* failed, the task is over and issues nothing more, and the only thing
\* that can still be written to r's HTTP exchange is the acknowledgement
\* itself if it was not yet returned; a response once written never changes
\* and is never followed by another.
C8_FailedPostIsFinal ==
    [][\A r \in Requests :
        /\ Len(posts'[r]) <= 1
        /\ Responded(r) => http'[r] = http[r]
        /\ PostFailed(r) =>
            /\ posts'[r] = posts[r]
            /\ worker'[r] = worker[r]
            /\ http'[r] \in {http[r], <<Acknowledgement>>}]_vars

C8_Witness ==
    \E r \in Requests :
        /\ worker[r].send_result = Some("error")
        /\ worker[r].pc = "panicked"
        /\ Len(posts[r]) = 1
        /\ http[r] = <<Acknowledgement>>

\* -------------------------------------------------------------------- C9

\* A well-formed request with two or more lines of text.
WellFormed(r) ==
    /\ pc[r] # "idle"
    /\ ~FailsWebhook(req[r])
    /\ NumLines(req[r].body.text) >= 2

\* C9: every well-formed request with two or more lines gets exactly one
\* response, the acknowledgement, and its task issues at most one POST,
\* which goes to the response_url of that request and carries the payload
\* made from the captioning result of that same task; none of this depends
\* on the state of any other request.
C9_RequestsAreIndependent ==
    \A r \in Requests :
        WellFormed(r) =>
            /\ http[r] = (IF pc[r] = "done" THEN <<Acknowledgement>> ELSE <<>>)
            /\ Len(posts[r]) <= 1
            /\ spawns[r] <= 1
            /\ \A i \in 1..Len(posts[r]) :
                /\ posts[r][i].url = req[r].body.response_url
                /\ worker[r].meme_response # None
                /\ posts[r][i].json = UserResponse(worker[r].meme_response[1])

\* Two requests answered and delivered to different callback URLs with
\* different payloads, the task of one of them dead of a failed POST.
C9_Witness ==
    \E r1, r2 \in Requests :
        /\ WellFormed(r1) /\ WellFormed(r2)
        /\ pc[r1] = "done" /\ pc[r2] = "done"
        /\ req[r1].body.response_url # req[r2].body.response_url
        /\ worker[r1].pc = "panicked" /\ worker[r2].pc = "finished"
        /\ Len(posts[r1]) = 1 /\ Len(posts[r2]) = 1
        /\ posts[r1][1].json # posts[r2][1].json

\* ------------------------------------------------------------------- C10

\* C10: for a request with a well-formed header and a body that decodes,
\* the validator accepts the credential exactly when it equals one of the
\* configured tokens; webhook then hands the decoded request to meme_reply,
\* and otherwise answers with the "Invalid token." problem, status 401.
C10_ExactTokenMatch ==
    \A r \in Requests :
        (/\ pc[r] \notin {"idle", "webhook"}
         /\ WellFormedHeader(req[r].authorization)
         /\ req[r].body.decodes) =>
            LET c == CredentialOf(req[r].authorization)
            IN  /\ token_validator(tokens, c) <=> (\E i \in 1..Len(tokens) : tokens[i] = c)
                /\ IF \E i \in 1..Len(tokens) : tokens[i] = c
                   THEN /\ extracted[r] = Some(req[r].body)
                        /\ \A i \in 1..Len(http[r]) : http[r][i].kind = "reply"
                   ELSE /\ extracted[r] = None
                        /\ pc[r] = "done"
                        /\ http[r] = <<unpack(build(InvalidToken))>>
                        /\ http[r][1].status = UNAUTHORIZED
                        /\ http[r][1].body[1].title = "Invalid token."

\* A credential that differs from the one configured token only in case
\* is refused.
C10_Witness ==
    \E r \in Requests :
        /\ tokens = << <<"a">> >>
        /\ req[r].authorization = Token(<<"A">>)
        /\ req[r].body.decodes
        /\ pc[r] = "done"
        /\ http[r][1].status = UNAUTHORIZED


\* ------------------------------------------------------------------- C11

\* C11: for every text header h a request has been received with,
\* token_authorization succeeds exactly when h starts with "Token ", and
\* then yields the rest of h after these six characters (possibly
\* nothing); every other h fails with the invalid-header-value error, and
\* the request is answered with the problem made from that error without
\* its body or token being looked at.
C11_SchemeThenSpace ==
    \A r \in Requests :
        (pc[r] # "idle" /\ req[r].authorization.kind = "text") =>
            LET h == req[r].authorization.value
                result == token_authorization(req[r].authorization)
            IN  IF Len(h) >= 6 /\ \A i \in 1..6 : h[i] = <<"T", "o", "k", "e", "n", " ">>[i]
                THEN /\ result.tag = "Ok"
                     /\ Len(result.val) = Len(h) - 6
                     /\ \A i \in 1..Len(result.val) : result.val[i] = h[i + 6]
                     /\ \A i \in 1..Len(http[r]) :
                            http[r][i] # unpack(build(InvalidAuthorizationHeaderValue))
                ELSE /\ result = Err(build(InvalidAuthorizationHeaderValue))
                     /\ extracted[r] = None
                     /\ pc[r] = "done" =>
                            http[r] = <<unpack(build(InvalidAuthorizationHeaderValue))>>

\* "Token " with nothing after it has been parsed to the empty credential
\* and accepted against a configured empty token.
C11_Witness ==
    \E r \in Requests :
        /\ req[r].authorization = TextHeader(<<"T", "o", "k", "e", "n", " ">>)
        /\ tokens[1] = <<>>
        /\ Accepted(r)


\* ------------------------------------------------------------------- C12

\* C12: the payload of every POST is determined by the captioning result
\* of its task. Success: the text holds the image URL, response_type is
\* "in_channel" and goto_location is the page URL. An API error with
\* message m: the text is "Uhoh, something went wrong: " followed by m,
\* no response_type (private) and no goto_location. Any other error: the
\* generic text, no response_type and no goto_location.
C12_PayloadOfOutcome ==
    \A r \in Requests : \A i \in 1..Len(posts[r]) :
        /\ worker[r].meme_response # None
        /\ LET outcome == worker[r].meme_response[1]
               payload == posts[r][i].json
           IN  /\ outcome.tag \in {"Ok", "ApiError", "Other"}
               /\ outcome.tag = "Ok" =>
                    /\ payload.text = Some(" hej " \o outcome.url)
                    /\ payload.response_type = Some("in_channel")
                    /\ payload.goto_location = Some(outcome.page_url)
               /\ outcome.tag = "ApiError" =>
                    /\ payload.text = Some("Uhoh, something went wrong: " \o outcome.message)
                    /\ payload.response_type = None
                    /\ payload.goto_location = None
               /\ outcome.tag = "Other" =>
                    /\ payload.text = Some("Uhoh, something went wrong")
                    /\ payload.response_type = None
                    /\ payload.goto_location = None

\* The API error "rate limited" has been delivered word for word.
C12_Witness ==
    \E r \in Requests :
        /\ worker[r].meme_response = Some(ApiError("rate limited"))
        /\ Len(posts[r]) = 1
        /\ posts[r][1].json.text = Some("Uhoh, something went wrong: rate limited")
        /\ posts[r][1].json.response_type = None


\* ------------------------------------------------------------------- C13

\* The task of r has terminated, by returning or by panicking.
WorkerOver(r) == worker[r].pc \in {"finished", "panicked"}

\* The positions a task may move to from position p.
WorkerSuccessors(p) ==
    IF p = "none" THEN {"none", "spawned"}
    ELSE IF p = "spawned" THEN {"spawned", "caption_image"}
    ELSE IF p = "caption_image" THEN {"caption_image", "send"}
    ELSE IF p = "send" THEN {"send", "finished", "panicked"}
    ELSE {p}

InChannel(payload) == payload.response_type = Some("in_channel")
Private(payload) == payload.response_type = None

\* C14: the only payloads with channel-wide visibility are POSTs of tasks
\* whose captioning result was a success; every reply on an HTTP exchange
\* (usage or acknowledgement) and every POST for a failed captioning
\* result is private.
C14_InChannelOnlyOnSuccess ==
    \A r \in Requests :
        /\ \A i \in 1..Len(http[r]) :
            http[r][i].kind = "reply" => Private(http[r][i].body[1])
        /\ \A i \in 1..Len(posts[r]) :
            /\ worker[r].meme_response # None
            /\ IF worker[r].meme_response[1].tag = "Ok"
               THEN InChannel(posts[r][i].json)
               ELSE Private(posts[r][i].json)

\* One request acknowledged in private and delivered to the channel,
\* another answered with the usage reply.
C14_Witness ==
    \E r1, r2 \in Requests :
        /\ http[r1] = <<Acknowledgement>>
        /\ Private(http[r1][1].body[1])
        /\ Len(posts[r1]) = 1
        /\ InChannel(posts[r1][1].json)
        /\ http[r2] = <<reply_json(usage("/meme"))>>


\* ------------------------------------------------------------------- C15

\* Request r has been through webhook with a well-formed header and a
\* body that decodes, so that its credential was put to the validator.
Validated(r) ==
    /\ pc[r] \notin {"idle", "webhook"}
    /\ WellFormedHeader(req[r].authorization)
    /\ req[r].body.decodes

\* C15: no step of a request's task or of a spawned task changes the
\* configured tokens, and two requests that put the same credential to
\* the validator get the same verdict, whatever has happened in between.
C15_TokensNeverChange ==
    /\ [][tokens' = tokens]_vars
    /\ [](\A r1, r2 \in Requests :
            (/\ Validated(r1) /\ Validated(r2)
             /\ CredentialOf(req[r1].authorization) = CredentialOf(req[r2].authorization)) =>
                (Accepted(r1) <=> Accepted(r2)))

\* Two requests with the same credential, both authorized, the second
\* one after the task of the first has run to its end.
C15_Witness ==
    \E r1, r2 \in Requests :
        /\ r1 # r2
        /\ Validated(r1) /\ Validated(r2)
        /\ req[r1].authorization = req[r2].authorization
        /\ Accepted(r1) /\ Accepted(r2)
        /\ worker[r1].pc \in {"finished", "panicked"}
        /\ pc[r2] = "meme_reply"


\* ------------------------------------------------------------------- C16

\* The text is an id without terminator followed by n terminators and
\* nothing else.
IdThenTerminators(t, n) ==
    /\ Len(t) >= n
    /\ \A i \in 1..Len(t) : (t[i] = LF) <=> (i > Len(t) - n)

\* C16: once meme_reply has run on an authorized, decoded request, an
\* empty text and a text that is an id followed by one line terminator
\* have got the usage reply and no task; a text that is an id followed by
\* two terminators (an empty second line) has got a task whose MemeRequest
\* is that id with one box of empty text, and the caption request of that
\* task has exactly this one empty box.
C16_FinalTerminatorIsNoLine ==
    \A r \in Requests :
        (Accepted(r) /\ pc[r] # "meme_reply") =>
            LET t == req[r].body.text
            IN  /\ (t = <<>> \/ IdThenTerminators(t, 1)) =>
                    /\ http[r] = <<reply_json(usage(req[r].body.command))>>
                    /\ spawns[r] = 0
                    /\ worker[r] = NoWorker
                    /\ captions[r] = <<>>
                    /\ posts[r] = <<>>
                /\ IdThenTerminators(t, 2) =>
                    /\ spawns[r] = 1
                    /\ worker[r].pc # "none"
                    /\ worker[r].meme_request = MemeRequest(SubSeq(t, 1, Len(t) - 2), << <<>> >>)
                    /\ \A i \in 1..Len(http[r]) : http[r][i] = Acknowledgement
                    /\ worker[r].pc # "spawned" =>
                        captions[r] = <<[template_id |-> SubSeq(t, 1, Len(t) - 2),
                                         boxes |-> <<[text |-> <<>>]>>]>>

\* An id with an empty second line has reached the captioning API with
\* one empty box.
C16_Witness ==
    \E r \in Requests :
        /\ req[r].body.text = <<"1", LF, LF>>
        /\ captions[r] = <<[template_id |-> <<"1">>, boxes |-> <<[text |-> <<>>]>>]>>
        /\ posts[r] # <<>>

====
